---- MODULE Spec2Model ----
(***************************************************************************)
(* A model of cmaker, the batch campaign-asset pipeline.                   *)
(*                                                                         *)
(*   CampaignLoader.load_campaign_briefs      (campaign_loading.py)        *)
(*   CampaignProcessor.process_all_campaigns  (campaign_processing.py)     *)
(*   CampaignProcessor.process_single_campaign                             *)
(*   CampaignProcessor._process_single_product                             *)
(*   CampaignProcessor._mark_campaign_done                                 *)
(*   CampaignProcessor._sanitize_product_name, _get_language_code,         *)
(*   CampaignProcessor._translate_message                                  *)
(*   ImageGenerator / PromptGenerator remote calls: the requests they     *)
(*   send, the files they write, their fallbacks and their exceptions.     *)
(*   ImageProcessor.crop_to_ratio, add_text_overlay (image_processing.py)  *)
(*                                                                         *)
(* Strings the code computes on (product names, language names, file       *)
(* names) are sequences of one-character strings. Messages, which the code *)
(* only passes on, are atomic strings. A prompt is a sequence of segments, *)
(* each the first len characters of a named text, so that its length and   *)
(* its prefixes can be computed.                                           *)
(***************************************************************************)
EXTENDS Naturals, Sequences, FiniteSets

VARIABLES
    marker,     \* [campaign -> content class of <campaign>/meta.yaml]
    brief,      \* [campaign -> content of <campaign>/brief.yaml]
    files,      \* [campaign -> [path -> content]]: the campaign folder's files
    tmp,        \* temporary files in the working directory
    pc,         \* position of process_all_campaigns
    scan,       \* load_campaign_briefs: index of the next folder of iterdir()
    briefs,     \* load_campaign_briefs: the list built so far / returned
    bi,         \* process_all_campaigns: index of the current brief
    ppc,        \* position inside process_single_campaign / _process_single_product
    pi,         \* process_single_campaign: index of the current product
    li,         \* _process_single_product: index of the current language
    loc,        \* _process_single_product: its local variables
    outcome,    \* this run, per campaign: "none", "ok" (returned), "failed" (raised)
    failedAt,   \* this run, per campaign: the product whose worker raised (0: none)
    prodDone,   \* this run, per campaign: the products whose worker returned, in order
    markCalls,  \* this run, per campaign: how often meta.yaml was written
    markFailed, \* this run: campaigns whose meta.yaml write raised (and was swallowed)
    calls,      \* this run: the remote calls made, <<campaign, product, kind>>
    log,        \* this run: the log records, <<level, what, campaign>>
    runs,       \* how many times the program was started
    request,    \* the remote request the last step sent (NoRequest: it sent none)
    fpc,        \* pure-function harness: which function was applied
    fnArg,      \* pure-function harness: the argument
    fnRes,      \* pure-function harness: the result
    fnRes2      \* pure-function harness: the function applied to its own result

vars == <<marker, brief, files, tmp, pc, scan, briefs, bi, ppc, pi, li, loc, outcome, failedAt, prodDone, markCalls, markFailed, calls, log, runs, request, fpc, fnArg, fnRes, fnRes2>>

runVars == <<marker, brief, files, tmp, pc, scan, briefs, bi, ppc, pi, li, loc, outcome, failedAt, prodDone, markCalls, markFailed, calls, log, runs, request>>

fnVars == <<fpc, fnArg, fnRes, fnRes2>>

----------------------------------------------------------------------------
(* Bounds *)

\* Longest argument string of the pure-function harness.
MaxNameLen == 3

\* How many times the program is started on the same campaigns directory.
MaxRuns == 2

----------------------------------------------------------------------------
(* Characters and strings *)

LowerLetters == <<"a","b","c","d","e","f","g","h","i","j","k","l","m","n","o","p","q","r","s","t","u","v","w","x","y","z">>

UpperLetters == <<"A","B","C","D","E","F","G","H","I","J","K","L","M","N","O","P","Q","R","S","T","U","V","W","X","Y","Z">>

Digits == {"0","1","2","3","4","5","6","7","8","9"}

\* What the regular expression class \s matches (two representatives).
Spaces == {" ", "\t"}

Range(s) == {s[i] : i \in 1..Len(s)}

IsLetter(c) == c \in Range(LowerLetters) \cup Range(UpperLetters)

\* str.lower() on one character.
ToLower(c) == IF c \in Range(UpperLetters) THEN LowerLetters[CHOOSE i \in 1..26 : UpperLetters[i] = c] ELSE c

\* str.lower()
LowerStr(s) == [i \in 1..Len(s) |-> ToLower(s[i])]

\* The characters re.sub(r"[^a-zA-Z0-9\s-]", "", product) keeps.
KeptChar_WithUnderscore(c) == IsLetter(c) \/ c \in Digits \/ c \in Spaces \/ c = "-" \/ c = "_"

KeptChar(c) == IsLetter(c) \/ c \in Digits \/ c \in Spaces \/ c = "-"

RemoveSpecial(s) == SelectSeq(s, KeptChar)

RECURSIVE LStrip(_)
LStrip(s) == IF s # <<>> /\ Head(s) \in Spaces THEN LStrip(Tail(s)) ELSE s

RECURSIVE RStrip(_)
RStrip(s) == IF s # <<>> /\ s[Len(s)] \in Spaces THEN RStrip(SubSeq(s, 1, Len(s) - 1)) ELSE s

\* str.strip()
Strip(s) == RStrip(LStrip(s))

\* re.sub(r"\s+", "_", s): every maximal run of whitespace becomes one underscore.
RECURSIVE CollapseSpaces(_)
CollapseSpaces(s) ==
    IF s = <<>> THEN <<>>
    ELSE IF Head(s) \in Spaces THEN <<"_">> \o CollapseSpaces(LStrip(s))
    ELSE <<Head(s)>> \o CollapseSpaces(Tail(s))

\* CampaignProcessor._sanitize_product_name
sanitize_product_name(product) == LowerStr(CollapseSpaces(Strip(RemoveSpecial(product))))

\* s[:2]
Prefix2(s) == SubSeq(s, 1, IF Len(s) < 2 THEN Len(s) ELSE 2)

English == <<"E","n","g","l","i","s","h">>

German == <<"G","e","r","m","a","n">>

French == <<"F","r","e","n","c","h">>

Spanish == <<"S","p","a","n","i","s","h">>

Italian == <<"I","t","a","l","i","a","n">>

Portuguese == <<"P","o","r","t","u","g","u","e","s","e">>

Dutch == <<"D","u","t","c","h">>

Russian == <<"R","u","s","s","i","a","n">>

Chinese == <<"C","h","i","n","e","s","e">>

Japanese == <<"J","a","p","a","n","e","s","e">>

Korean == <<"K","o","r","e","a","n">>

\* The dict of _get_language_code, as <<name, code>> pairs.
language_codes == {
    <<English, <<"e","n">> >>, <<German, <<"d","e">> >>, <<French, <<"f","r">> >>,
    <<Spanish, <<"e","s">> >>, <<Italian, <<"i","t">> >>, <<Portuguese, <<"p","t">> >>,
    <<Dutch, <<"n","l">> >>, <<Russian, <<"r","u">> >>, <<Chinese, <<"z","h">> >>,
    <<Japanese, <<"j","a">> >>, <<Korean, <<"k","o">> >> }

\* The default of language_codes.get(language, language.lower()[:2])
FallbackCode_NoLower(language) == Prefix2(language)

FallbackCode(language) == Prefix2(LowerStr(language))

\* CampaignProcessor._get_language_code
get_language_code(language) ==
    IF \E e \in language_codes : e[1] = language
    THEN (CHOOSE e \in language_codes : e[1] = language)[2]
    ELSE FallbackCode(language)

----------------------------------------------------------------------------
(* The campaigns directory *)

\* The sub-directories of Config.CAMPAIGNS_DIR, in the order iterdir() yields them.
CampaignDirs == <<"c1", "c2">>

Campaigns == 1..Len(CampaignDirs)

\* Content classes of meta.yaml, by what yaml.safe_load makes of the file:
\*   absent   no file
\*   done     a mapping with status "done"
\*   other    a mapping with another status, or none
\*   empty    None or another falsy value (an empty file)
\*   nonmap   a truthy value that is no mapping (a list, a string): it has no .get
\*   badyaml  a YAML syntax error
MarkerKinds == {"absent", "done", "other", "empty", "nonmap", "badyaml"}

\* Path components. A component is a string like the names above; the fixed names
\* of the layout are one-element strings.
RESULTS_DIR == <<"results">>

ASSETS_DIR == <<"assets">>

BASE == <<"base">>

PNG == <<".png">>

Ratios == <<"1x1", "16x9", "9x16">>

NonEmpty(s) == s # <<>>

\* pathlib's a / b / c: an empty component adds nothing.
MakePath(components) == SelectSeq(components, NonEmpty)

\* Path(name).stem, for names whose only dot starts the ".png" suffix.
Stem(name) == IF Len(name) > 1 /\ name[Len(name)] = ".png" THEN SubSeq(name, 1, Len(name) - 1) ELSE name

\* File contents. k: what the image is; run, prod: the run and product whose
\* generation made it; text: the text burned in ("" for none).
Image(k, r, p) == [k |-> k, run |-> r, prod |-> p, text |-> ""]

AssetOnDisk == Image("asset", 0, 0)

\* Writing files: upd is a [path -> content] function.
Merge(fs, upd) == [p \in DOMAIN fs \cup DOMAIN upd |-> IF p \in DOMAIN upd THEN upd[p] ELSE fs[p]]

\* A one-file update.
OneFile(path, content) == [p \in {path} |-> content]

NoFiles == [p \in {} |-> AssetOnDisk]

----------------------------------------------------------------------------
(* Briefs *)

Shoe == <<"S","h","o","e">>

Tea == <<"T","e","a">>

TeaBang == <<"t","e","a","!">>

Cup == <<"C","u","p">>

IceMug == <<"I","c","e"," ","M","u","g">>

Bang == <<"!">>

Engels == <<"E","n","g","e","l","s">>

AssetX == <<"x", ".png">>

AssetY == <<"y", ".png">>

AssetZ == <<"z", ".png">>

\* Content of brief.yaml. kind is what yaml.safe_load makes of the file ("absent":
\* no file; "badyaml": a syntax error; "empty": None; "nonmap": a list or a scalar;
\* "map": a mapping). disk: the files of the campaign's assets folder.
Brief(kind, products, assets, hasLanguages, languages, message, disk) ==
    [kind |-> kind, products |-> products, assets |-> assets, hasLanguages |-> hasLanguages,
     languages |-> languages, message |-> message, disk |-> disk]

NoBrief(kind) == Brief(kind, <<>>, <<>>, FALSE, <<>>, "", {})

\* One product, no asset file, two languages, a message.
BriefOne == Brief("map", <<Shoe>>, <<>>, TRUE, <<English, German>>, "Buy", {})

\* Two products with the same sanitized name and different asset files on disk;
\* no languages key, an empty message.
BriefCollide == Brief("map", <<Tea, TeaBang>>, <<AssetX, AssetY>>, FALSE, <<>>, "", {AssetX, AssetY})

\* Two products, an asset for the first only; two languages with the same code.
BriefTwo == Brief("map", <<Cup, IceMug>>, <<AssetX>>, TRUE, <<Engels, English>>, "Buy", {AssetX})

\* A mapping without products.
BriefNoProducts == Brief("map", <<>>, <<>>, FALSE, <<>>, "Buy", {})

\* A product whose sanitized name is empty, a named asset that is not on disk,
\* a whitespace-only message.
BriefBlank == Brief("map", <<Bang>>, <<AssetZ>>, TRUE, <<German>>, " ", {})

\* What a campaign folder may hold: every marker with every kind of brief file,
\* and the briefs with products in a folder without marker or marked done.
FolderContents ==
    (MarkerKinds \X {NoBrief("absent"), NoBrief("badyaml"), NoBrief("empty"), NoBrief("nonmap"), BriefNoProducts})
    \cup ({"absent", "done"} \X {BriefOne, BriefCollide, BriefTwo, BriefBlank})

\* campaign_brief.get("languages", ["English"])
LanguagesOf(b) == IF b.hasLanguages THEN b.languages ELSE <<English>>

\* assets[i], None (here the empty name) on IndexError
AssetFor(b, i) == IF i <= Len(b.assets) THEN b.assets[i] ELSE <<>>

\* The number of characters of a prompt.
RECURSIVE TextLen(_)
TextLen(t) == IF t = <<>> THEN 0 ELSE Head(t).len + TextLen(Tail(t))

\* t[0:n]
RECURSIVE Slice(_, _)
Slice(t, n) ==
    IF t = <<>> \/ n = 0 THEN <<>>
    ELSE IF Head(t).len <= n THEN <<Head(t)>> \o Slice(Tail(t), n - Head(t).len)
    ELSE <<[Head(t) EXCEPT !.len = n]>>

\* Config.MAX_DALLE_PROMPT_LENGTH
MAX_DALLE_PROMPT_LENGTH == 800

\* "..."
Ellipsis == <<[src |-> "...", len |-> 3]>>

\* The prompt create_campaign_prompt_with_llm returns when the completion call fails.
DefaultPrompt == <<[src |-> "A professional product photography scene, ...", len |-> 107]>>

\* What the completion API may answer to the scene request, after .strip().
SceneReplies == {<<[src |-> "scene reply", len |-> 1200]>>}

\* What the completion API may answer to the compression request, after
\* .strip(): nothing holds it to the length it was asked for.
CompressReplies == {<<[src |-> "compression reply", len |-> 1500]>>}

TruncatedPrompt_NoEllipsis(detailed_prompt) == Slice(detailed_prompt, MAX_DALLE_PROMPT_LENGTH)

\* The value create_dalle_prompt returns when the completion call fails.
TruncatedPrompt(detailed_prompt) ==
    IF TextLen(detailed_prompt) > MAX_DALLE_PROMPT_LENGTH
    THEN Slice(detailed_prompt, MAX_DALLE_PROMPT_LENGTH) \o Ellipsis
    ELSE detailed_prompt

OutpaintPrompt_Uncut(prompt) == prompt

\* prompt[0:999], the prompt outpaint_with_dalle sends.
OutpaintPrompt(prompt) == Slice(prompt, 999)

\* The uninitialised locals of _process_single_product.
NoLocals == [pn |-> <<>>, assetPath |-> <<>>, assetName |-> <<>>, prompt |-> <<>>, dalle |-> <<>>, translated |-> <<>>, apiError |-> FALSE]

\* A request to a remote API: which call of the pipeline sends it, the image and
\* mask files it uploads ("none": no such parameter), its prompt and its size.
Request(kind, image, mask, prompt, size) == [kind |-> kind, image |-> image, mask |-> mask, prompt |-> prompt, size |-> size]

NoRequest == Request("none", "none", "none", <<>>, "")

InitialDisk(b) == [p \in {MakePath(<<ASSETS_DIR, a>>) : a \in b.disk} |-> AssetOnDisk]

----------------------------------------------------------------------------
(* The program before its first start *)

NoRun ==
    /\ tmp = {}
    /\ pc = "idle"
    /\ scan = 0
    /\ briefs = <<>>
    /\ bi = 0
    /\ ppc = "none"
    /\ pi = 0
    /\ li = 0
    /\ loc = NoLocals
    /\ outcome = [c \in Campaigns |-> "none"]
    /\ failedAt = [c \in Campaigns |-> 0]
    /\ prodDone = [c \in Campaigns |-> <<>>]
    /\ markCalls = [c \in Campaigns |-> 0]
    /\ markFailed = {}
    /\ calls = {}
    /\ log = {}
    /\ runs = 0
    /\ request = NoRequest

NoFn ==
    /\ fpc = "none"
    /\ fnArg = <<>>
    /\ fnRes = <<>>
    /\ fnRes2 = <<>>

Init ==
    /\ \E folders \in [Campaigns -> FolderContents] :
          /\ marker = [c \in Campaigns |-> folders[c][1]]
          /\ brief = [c \in Campaigns |-> folders[c][2]]
    /\ files = [c \in Campaigns |-> InitialDisk(brief[c])]
    /\ NoRun
    /\ NoFn

----------------------------------------------------------------------------
(* CampaignLoader.load_campaign_briefs *)

\* meta_data.get(...) on a truthy value that is no mapping raises AttributeError,
\* which the loader's "except yaml.YAMLError" does not catch.
MarkerRaises(m) == m = "nonmap"

MarkerSaysDone_Never(m) == FALSE

MarkerSaysDone_Inverted(m) == m # "done"

\* meta_data and meta_data.get("status", "") == "done"
MarkerSaysDone(m) == m = "done"

\* brief_data["campaign_name"] = ... on None, a list or a scalar raises TypeError,
\* which the loader's "except yaml.YAMLError" does not catch.
BriefRaises(kind) == kind \in {"empty", "nonmap"}

StartRun ==
    /\ pc \in {"idle", "returned", "raised"}
    /\ runs < MaxRuns
    /\ runs' = runs + 1
    /\ pc' = "load"
    /\ scan' = 1
    /\ briefs' = <<>>
    /\ bi' = 0
    /\ ppc' = "none"
    /\ pi' = 0
    /\ li' = 0
    /\ loc' = NoLocals
    /\ outcome' = [c \in Campaigns |-> "none"]
    /\ failedAt' = [c \in Campaigns |-> 0]
    /\ prodDone' = [c \in Campaigns |-> <<>>]
    /\ markCalls' = [c \in Campaigns |-> 0]
    /\ markFailed' = {}
    /\ calls' = {}
    /\ log' = {}
    /\ request' = NoRequest
    /\ UNCHANGED <<marker, brief, files, tmp, fnVars>>

\* One iteration of "for campaign_dir in campaigns_path.iterdir()".
LoadCampaign ==
    /\ pc = "load"
    /\ scan <= Len(CampaignDirs)
    /\ LET c == scan
           m == marker[c]
           kind == brief[c].kind
           warned == IF m = "badyaml" THEN {<<"warning", "meta", c>>} ELSE {}
       IN  IF m # "absent" /\ MarkerRaises(m)
           THEN /\ pc' = "raised"
                /\ UNCHANGED <<scan, briefs, log>>
           ELSE IF m # "absent" /\ m # "badyaml" /\ MarkerSaysDone(m)
           THEN /\ log' = log \cup {<<"info", "skip", c>>}
                /\ scan' = scan + 1
                /\ UNCHANGED <<pc, briefs>>
           ELSE IF kind = "absent"
           THEN /\ log' = log \cup warned
                /\ scan' = scan + 1
                /\ UNCHANGED <<pc, briefs>>
           ELSE IF kind = "badyaml"
           THEN /\ log' = log \cup warned \cup {<<"error", "brief", c>>}
                /\ scan' = scan + 1
                /\ UNCHANGED <<pc, briefs>>
           ELSE IF BriefRaises(kind)
           THEN /\ pc' = "raised"
                /\ log' = log \cup warned
                /\ UNCHANGED <<scan, briefs>>
           ELSE /\ briefs' = Append(briefs, c)
                /\ log' = log \cup warned \cup {<<"info", "loaded", c>>}
                /\ scan' = scan + 1
                /\ UNCHANGED pc
    /\ UNCHANGED <<marker, brief, files, tmp, bi, ppc, pi, li, loc>>
    /\ UNCHANGED <<outcome, failedAt, prodDone, markCalls, markFailed, calls, runs, fnVars>>
    /\ request' = NoRequest

\* "return briefs", and the start of process_all_campaigns' loop.
LoadReturn ==
    /\ pc = "load"
    /\ scan > Len(CampaignDirs)
    /\ IF briefs = <<>>
       THEN /\ pc' = "returned"
            /\ log' = log \cup {<<"info", "nobriefs", 0>>}
            /\ UNCHANGED <<bi, ppc>>
       ELSE /\ pc' = "process"
            /\ bi' = 1
            /\ ppc' = "start"
            /\ log' = log
    /\ UNCHANGED <<marker, brief, files, tmp, scan, briefs, pi, li, loc>>
    /\ UNCHANGED <<outcome, failedAt, prodDone, markCalls, markFailed, calls, runs, fnVars>>
    /\ request' = NoRequest

----------------------------------------------------------------------------
(* CampaignProcessor.process_all_campaigns / process_single_campaign *)

Cur == briefs[bi]

CurBrief == brief[Cur]

\* "for brief in briefs": on to the next brief, or return.
NextBrief ==
    /\ pi' = 0
    /\ li' = 0
    /\ loc' = NoLocals
    /\ IF bi < Len(briefs)
       THEN /\ bi' = bi + 1
            /\ pc' = "process"
            /\ ppc' = "start"
       ELSE /\ bi' = bi
            /\ pc' = "returned"
            /\ ppc' = "none"

CampaignHandlerCatches_Not == FALSE

\* process_all_campaigns wraps process_single_campaign in "except Exception".
CampaignHandlerCatches == TRUE

AfterProductException_Continue(i, n) == IF i < n THEN "resolve" ELSE "mark"

\* Where control goes when _process_single_product raises for product i of n:
\* the product loop has no handler of its own.
AfterProductException(i, n) == "handler"

NextAfterProduct_MarkEarly(i, n) == "mark"

\* "for i, product in enumerate(products)": after product i of n (0: before the first).
NextAfterProduct(i, n) == IF i < n THEN "resolve" ELSE "mark"

\* An exception leaves _process_single_product.
Raises ==
    /\ failedAt' = [failedAt EXCEPT ![Cur] = pi]
    /\ LET target == AfterProductException(pi, Len(CurBrief.products))
       IN  IF target = "handler"
           THEN /\ outcome' = [outcome EXCEPT ![Cur] = "failed"]
                /\ IF CampaignHandlerCatches
                   THEN /\ log' = log \cup {<<"exception", "campaign", Cur>>}
                        /\ NextBrief
                   ELSE /\ log' = log
                        /\ pc' = "raised"
                        /\ UNCHANGED <<bi, ppc, pi, li, loc>>
           ELSE /\ outcome' = outcome
                /\ log' = log
                /\ pi' = pi + 1
                /\ ppc' = target
                /\ li' = 0
                /\ loc' = NoLocals
                /\ UNCHANGED <<pc, bi>>

\* process_single_campaign up to its product loop.
CampaignStart ==
    /\ pc = "process"
    /\ ppc = "start"
    /\ pi' = 1
    /\ ppc' = NextAfterProduct(0, Len(CurBrief.products))
    /\ log' = log \cup {<<"info", "processing", Cur>>}
    /\ UNCHANGED <<marker, brief, files, tmp, pc, scan, briefs, bi, li, loc>>
    /\ UNCHANGED <<outcome, failedAt, prodDone, markCalls, markFailed, calls, runs, fnVars>>
    /\ request' = NoRequest

\* _mark_campaign_done, and the return of process_single_campaign.
MarkDone ==
    /\ pc = "process"
    /\ ppc = "mark"
    /\ markCalls' = [markCalls EXCEPT ![Cur] = @ + 1]
    /\ outcome' = [outcome EXCEPT ![Cur] = "ok"]
    /\ \/ /\ marker' = [marker EXCEPT ![Cur] = "done"]
          /\ log' = log \cup {<<"info", "marked", Cur>>}
          /\ markFailed' = markFailed
       \/ \* open(meta_file, "w") raises: logged, not re-raised
          /\ marker' = marker
          /\ log' = log \cup {<<"error", "mark", Cur>>}
          /\ markFailed' = markFailed \cup {Cur}
    /\ NextBrief
    /\ UNCHANGED <<brief, files, tmp, scan, briefs>>
    /\ UNCHANGED <<failedAt, prodDone, calls, runs, fnVars>>
    /\ request' = NoRequest

----------------------------------------------------------------------------
(* CampaignProcessor._process_single_product *)

Product == CurBrief.products[pi]

\* campaign_path / ASSETS_DIR / name
AssetPath(name) == MakePath(<<ASSETS_DIR, name>>)

\* asset_path_obj.with_name(f"{asset_path_obj.stem}_mask.png")
MaskPath(assetPath) == SubSeq(assetPath, 1, Len(assetPath) - 1) \o <<Stem(assetPath[Len(assetPath)]) \o <<"_mask.png">> >>

\* results_path / product_name / "base"
BaseFolder(pn) == <<RESULTS_DIR, pn, BASE>>

LangFolder_IsBase(pn, code) == <<RESULTS_DIR, pn, BASE>>

\* results_path / product_name / language_code
LangFolder(pn, code) == <<RESULTS_DIR, pn, code>>

FileName_NoRatio(stem, ratio) == stem \o <<".png">>

\* f"{asset_name}_{ratio}.png"
FileName(stem, ratio) == stem \o <<"_", ratio, ".png">>

\* folder / ratio / f"{asset_name}_{ratio}.png"
ImagePath(folder, stem, ratio) == MakePath(folder \o << <<ratio>>, FileName(stem, ratio) >>)

\* not text or not text.strip()
Blank(text) == text \in {"", " "}

\* ImageProcessor.add_text_overlay, for texts that fit the image.
add_text_overlay(image, text) == IF Blank(text) THEN image ELSE [image EXCEPT !.text = text]

NoTranslationNeeded_Never(message, language) == FALSE

\* _translate_message asks the completion API unless this holds.
NoTranslationNeeded(message, language) == LowerStr(language) = LowerStr(English) \/ Blank(message)

\* What the completion API may answer to a translation request, after
\* .strip().strip('"').strip("'").
TranslationReplies == {"Kaufen"}

\* product_name, then "if asset_file: ... if potential_asset_path.exists()".
ResolveAsset ==
    /\ pc = "process"
    /\ ppc = "resolve"
    /\ LET pn == sanitize_product_name(Product)
           asset_file == AssetFor(CurBrief, pi)
       IN  IF asset_file # <<>> /\ AssetPath(asset_file) \in DOMAIN files[Cur]
           THEN /\ loc' = [NoLocals EXCEPT !.pn = pn, !.assetPath = AssetPath(asset_file), !.assetName = Stem(asset_file)]
                /\ ppc' = "scene"
           ELSE /\ loc' = [NoLocals EXCEPT !.pn = pn]
                /\ ppc' = "extract"
    /\ UNCHANGED <<marker, brief, files, tmp, pc, scan, briefs, bi, pi, li>>
    /\ UNCHANGED <<outcome, failedAt, prodDone, markCalls, markFailed, calls, log, runs, fnVars>>
    /\ request' = NoRequest

\* create_asset_from_prompt: _extract_asset_from_prompt (a completion call).
ExtractAsset ==
    /\ pc = "process"
    /\ ppc = "extract"
    /\ calls' = calls \cup {<<Cur, pi, "extract">>}
    /\ request' = Request("extract", "none", "none", <<>>, "")
    /\ \/ /\ ppc' = "genasset"
          /\ UNCHANGED <<pc, bi, pi, li, loc, outcome, failedAt, log>>
       \/ Raises
    /\ UNCHANGED <<marker, brief, files, tmp, scan, briefs>>
    /\ UNCHANGED <<prodDone, markCalls, markFailed, runs, fnVars>>

\* create_asset_from_prompt: images.generate, then the asset file is written.
GenerateAsset ==
    /\ pc = "process"
    /\ ppc = "genasset"
    /\ calls' = calls \cup {<<Cur, pi, "generate">>}
    /\ request' = Request("generate", "none", "none", <<>>, "1024x1024")
    /\ \/ LET name == loc.pn \o PNG
          IN  /\ files' = [files EXCEPT ![Cur] = Merge(@, OneFile(AssetPath(name), Image("asset", runs, pi)))]
              /\ loc' = [loc EXCEPT !.assetPath = AssetPath(name), !.assetName = Stem(name)]
              /\ ppc' = "scene"
              /\ UNCHANGED <<pc, bi, pi, li, outcome, failedAt, log>>
       \/ /\ Raises
          /\ files' = files
    /\ UNCHANGED <<marker, brief, tmp, scan, briefs>>
    /\ UNCHANGED <<prodDone, markCalls, markFailed, runs, fnVars>>

\* create_campaign_prompt_with_llm: the reply, or the hardcoded prompt on any error.
ScenePrompt ==
    /\ pc = "process"
    /\ ppc = "scene"
    /\ calls' = calls \cup {<<Cur, pi, "scene">>}
    /\ request' = Request("scene", "none", "none", <<>>, "")
    /\ \/ \E reply \in SceneReplies : loc' = [loc EXCEPT !.prompt = reply, !.apiError = FALSE]
       \/ loc' = [loc EXCEPT !.prompt = DefaultPrompt, !.apiError = TRUE]
    /\ ppc' = "base"
    /\ UNCHANGED <<marker, brief, files, tmp, pc, scan, briefs, bi, pi, li>>
    /\ UNCHANGED <<outcome, failedAt, prodDone, markCalls, markFailed, log, runs, fnVars>>

\* The request generate_image_with_asset sends: images.edit(model=..., image=img,
\* prompt=prompt, size="1024x1024"). The lock mask it has just built is not
\* among the arguments.
BaseEditRequest(prompt) == Request("edit_base", "asset", "none", prompt, "1024x1024")

\* The base folders are made, then generate_image_with_asset: the lock mask is
\* saved beside the asset (Config.SAVE_MASK), then images.edit, then the base
\* 1x1 image is written.
BaseImage ==
    /\ pc = "process"
    /\ ppc = "base"
    /\ \/ \* the edit call answers
          /\ calls' = calls \cup {<<Cur, pi, "edit_base">>}
          /\ request' = BaseEditRequest(loc.prompt)
          /\ files' = [files EXCEPT ![Cur] = Merge(Merge(@, OneFile(MaskPath(loc.assetPath), Image("mask", runs, pi))),
                                                   OneFile(ImagePath(BaseFolder(loc.pn), loc.assetName, "1x1"), Image("1x1", runs, pi)))]
          /\ ppc' = "canvas"
          /\ UNCHANGED <<pc, bi, pi, li, loc, outcome, failedAt, log>>
       \/ \* the edit call raises
          /\ calls' = calls \cup {<<Cur, pi, "edit_base">>}
          /\ request' = BaseEditRequest(loc.prompt)
          /\ files' = [files EXCEPT ![Cur] = Merge(@, OneFile(MaskPath(loc.assetPath), Image("mask", runs, pi)))]
          /\ Raises
       \/ \* _make_lock_mask_from_asset raises (the asset is no readable image)
          /\ calls' = calls
          /\ request' = NoRequest
          /\ files' = files
          /\ Raises
    /\ UNCHANGED <<marker, brief, tmp, scan, briefs>>
    /\ UNCHANGED <<prodDone, markCalls, markFailed, runs, fnVars>>

\* ImageProcessor.prepare_canvas: local, reads the base image.
PrepareCanvas ==
    /\ pc = "process"
    /\ ppc = "canvas"
    /\ ppc' = "compress"
    /\ UNCHANGED <<marker, brief, files, tmp, pc, scan, briefs, bi, pi, li, loc>>
    /\ UNCHANGED <<outcome, failedAt, prodDone, markCalls, markFailed, calls, log, runs, fnVars>>
    /\ request' = NoRequest

\* create_dalle_prompt: the reply, or the truncated scene prompt on any error.
CompressPrompt ==
    /\ pc = "process"
    /\ ppc = "compress"
    /\ calls' = calls \cup {<<Cur, pi, "compress">>}
    /\ request' = Request("compress", "none", "none", <<>>, "")
    /\ \/ \* (the scene prompt is not read after this call)
          \E reply \in CompressReplies : loc' = [loc EXCEPT !.dalle = reply, !.prompt = <<>>, !.apiError = FALSE]
       \/ loc' = [loc EXCEPT !.dalle = TruncatedPrompt(loc.prompt), !.prompt = <<>>, !.apiError = TRUE]
    /\ ppc' = "outpaint"
    /\ UNCHANGED <<marker, brief, files, tmp, pc, scan, briefs, bi, pi, li>>
    /\ UNCHANGED <<outcome, failedAt, prodDone, markCalls, markFailed, log, runs, fnVars>>

\* What is left of the temporary files when outpaint_with_dalle returns.
TempFilesAfterOutpaint_Kept(t) == t \cup {"temp_canvas.png", "temp_mask.png"}

\* temp_image_path, temp_mask_path
TempFiles == {"temp_canvas.png", "temp_mask.png"}

\* os.remove(temp_image_path); os.remove(temp_mask_path)
TempFilesAfterOutpaint(t) == t \ TempFiles

\* outpaint_with_dalle (the temporary files are written, images.edit is called,
\* the temporary files are removed), then the two crop_to_ratio calls.
Outpaint ==
    /\ pc = "process"
    /\ ppc = "outpaint"
    /\ calls' = calls \cup {<<Cur, pi, "edit_outpaint">>}
    /\ request' = Request("edit_outpaint", "temp_canvas.png", "temp_mask.png", OutpaintPrompt(loc.dalle), "1024x1024")
    /\ \/ /\ tmp' = TempFilesAfterOutpaint(tmp)
          /\ files' = [files EXCEPT ![Cur] = Merge(@, [p \in {ImagePath(BaseFolder(loc.pn), loc.assetName, r) : r \in {"16x9", "9x16"}} |->
                                                        IF p = ImagePath(BaseFolder(loc.pn), loc.assetName, "16x9")
                                                        THEN Image("16x9", runs, pi) ELSE Image("9x16", runs, pi)])]
          /\ ppc' = "lang"
          /\ li' = 1
          /\ loc' = [loc EXCEPT !.dalle = <<>>, !.apiError = FALSE]
          /\ UNCHANGED <<pc, bi, pi, outcome, failedAt, log>>
       \/ /\ tmp' = tmp \cup TempFiles
          /\ files' = files
          /\ Raises
    /\ UNCHANGED <<marker, brief, scan, briefs>>
    /\ UNCHANGED <<prodDone, markCalls, markFailed, runs, fnVars>>

\* One iteration of "for language in languages" for a translated text: the
\* three base images are copied into the language folder and, if the brief has
\* a message, saved again with the text overlay.
LanguageFiles(text, failed) ==
    LET language == LanguagesOf(CurBrief)[li]
        folder == LangFolder(loc.pn, get_language_code(language))
        baseImg(r) == files[Cur][ImagePath(BaseFolder(loc.pn), loc.assetName, r)]
    IN  /\ files' = [files EXCEPT ![Cur] = Merge(@, [p \in {ImagePath(folder, loc.assetName, Ratios[j]) : j \in 1..3} |->
                        LET r == CHOOSE r \in Range(Ratios) : p = ImagePath(folder, loc.assetName, r)
                        IN  IF CurBrief.message = "" THEN baseImg(r) ELSE add_text_overlay(baseImg(r), text)])]
        /\ loc' = [loc EXCEPT !.translated = Append(@, text), !.apiError = failed]
        /\ li' = li + 1

Language ==
    /\ pc = "process"
    /\ ppc = "lang"
    /\ li <= Len(LanguagesOf(CurBrief))
    /\ LET language == LanguagesOf(CurBrief)[li]
           message == CurBrief.message
       IN  \/ \* no message, or no translation needed
              /\ message = "" \/ NoTranslationNeeded(message, language)
              /\ LanguageFiles(message, FALSE)
              /\ calls' = calls
              /\ request' = NoRequest
           \/ \* the completion API answers
              /\ message # "" /\ ~NoTranslationNeeded(message, language)
              /\ \E reply \in TranslationReplies : LanguageFiles(reply, FALSE)
              /\ calls' = calls \cup {<<Cur, pi, "translate">>}
              /\ request' = Request("translate", "none", "none", <<>>, "")
           \/ \* the completion API raises: the original message
              /\ message # "" /\ ~NoTranslationNeeded(message, language)
              /\ LanguageFiles(message, TRUE)
              /\ calls' = calls \cup {<<Cur, pi, "translate">>}
              /\ request' = Request("translate", "none", "none", <<>>, "")
    /\ UNCHANGED <<marker, brief, tmp, pc, scan, briefs, bi, ppc, pi>>
    /\ UNCHANGED <<outcome, failedAt, prodDone, markCalls, markFailed, log, runs, fnVars>>

\* _process_single_product returns; the product loop goes on.
ProductDone ==
    /\ pc = "process"
    /\ ppc = "lang"
    /\ li > Len(LanguagesOf(CurBrief))
    /\ prodDone' = [prodDone EXCEPT ![Cur] = Append(@, pi)]
    /\ pi' = pi + 1
    /\ ppc' = NextAfterProduct(pi, Len(CurBrief.products))
    /\ li' = 0
    /\ loc' = NoLocals
    /\ UNCHANGED <<marker, brief, files, tmp, pc, scan, briefs, bi>>
    /\ UNCHANGED <<outcome, failedAt, markCalls, markFailed, calls, log, runs, fnVars>>
    /\ request' = NoRequest

Next ==
    \/ StartRun
    \/ LoadCampaign
    \/ LoadReturn
    \/ CampaignStart
    \/ ResolveAsset
    \/ ExtractAsset
    \/ GenerateAsset
    \/ ScenePrompt
    \/ BaseImage
    \/ PrepareCanvas
    \/ CompressPrompt
    \/ Outpaint
    \/ Language
    \/ ProductDone
    \/ MarkDone

Spec == Init /\ [][Next]_vars

----------------------------------------------------------------------------
(* The pure functions, applied to every short string *)

NameChars == {"a", "B", "7", " ", "\t", "-", "_", "!"}

Strings(n) == UNION {[1..k -> NameChars] : k \in 0..n}

KnownLanguages == {e[1] : e \in language_codes}

OtherLanguages == {Engels, LowerStr(English), LowerStr(German), <<"S","w","e","d","i","s","h">>, <<"X">>, <<"Z","H">>}

FnArgs == Strings(MaxNameLen) \cup KnownLanguages \cup OtherLanguages

InitFn ==
    /\ marker = [c \in Campaigns |-> "absent"]
    /\ brief = [c \in Campaigns |-> NoBrief("absent")]
    /\ files = [c \in Campaigns |-> NoFiles]
    /\ NoRun
    /\ fpc = "arg"
    /\ fnArg \in FnArgs
    /\ fnRes = <<>>
    /\ fnRes2 = <<>>

ApplySanitize ==
    /\ fpc = "arg"
    /\ fpc' = "sanitized"
    /\ fnRes' = sanitize_product_name(fnArg)
    /\ UNCHANGED <<fnArg, fnRes2, runVars>>

ApplySanitizeAgain ==
    /\ fpc = "sanitized"
    /\ fpc' = "resanitized"
    /\ fnRes2' = sanitize_product_name(fnRes)
    /\ UNCHANGED <<fnArg, fnRes, runVars>>

ApplyLanguageCode ==
    /\ fpc = "arg"
    /\ fpc' = "coded"
    /\ fnRes' = get_language_code(fnArg)
    /\ UNCHANGED <<fnArg, fnRes2, runVars>>

NextFn ==
    \/ ApplySanitize
    \/ ApplySanitizeAgain
    \/ ApplyLanguageCode

SpecFn == InitFn /\ [][NextFn]_vars

----------------------------------------------------------------------------
(* ImageProcessor.crop_to_ratio and add_text_overlay, applied to small inputs *)

\* An optional argument: {} is None, {v} is the value v.
None == {}

Some(v) == {v}

OrDefault(opt, default) == IF opt = None THEN default ELSE CHOOSE v \in opt : TRUE

\* Config.FONT_SIZE
FONT_SIZE == 48

\* Config.TEXT_OPACITY
TEXT_OPACITY == 200

\* int(size * Config.MARGIN_PERCENTAGE), the percentage being 0.05
Margin(size) == (size * 5) \div 100

\* An in-memory image: its size and how its pixels were made (<<>>: as loaded).
Picture(w, h) == [w |-> w, h |-> h, px |-> <<>>]

\* image.resize((w, h), Image.LANCZOS)
Resize(image, w, h) == [w |-> w, h |-> h, px |-> Append(image.px, [op |-> "resize", from |-> <<image.w, image.h>>])]

\* image.crop((left, upper, right, lower))
Crop(image, box) == [w |-> box[3] - box[1], h |-> box[4] - box[2], px |-> Append(image.px, [op |-> "crop", box |-> box])]

CropBox_Shifted(ratio) == IF ratio = "16x9" THEN <<0, 0, 1536, 864>> ELSE <<0, 0, 864, 1536>>

\* The rectangle crop_to_ratio cuts out of the resized image.
CropBox(ratio) == IF ratio = "16x9" THEN <<0, 336, 1536, 1200>> ELSE <<336, 0, 1200, 1536>>

\* ImageProcessor.crop_to_ratio: whether it raised, and the images it saved at out_path.
crop_to_ratio(image, ratio) ==
    IF ratio \in {"16x9", "9x16"}
    THEN [raised |-> FALSE, saved |-> {Crop(Resize(image, 1536, 1536), CropBox(ratio))}]
    ELSE [raised |-> TRUE, saved |-> {}]

\* text.strip() == "" for a str
OnlyWhitespace(chars) == \A i \in 1..Len(chars) : chars[i] \in Spaces

SkipsOverlay_EmptyOnly(text) == text = Some(<<>>)

\* "not text or not text.strip()", text being None or a str.
SkipsOverlay(text) == text = None \/ OnlyWhitespace(OrDefault(text, <<>>))

\* font.getbbox(text), as (width, height). A font of FONT_PATHS is scaled to
\* font_size (every glyph half as wide as high); when none can be opened,
\* _get_font returns ImageFont.load_default(), whose glyphs have one size.
TextSize(chars, font_size, truetype) ==
    IF truetype THEN <<(Len(chars) * font_size) \div 2, font_size>> ELSE <<Len(chars) * 6, 11>>

\* The sizes "range(initial_font_size, 12, -4)" has left from font_size on: none.
RangeExhausted(font_size) == font_size <= 12

\* ImageProcessor._find_optimal_text_layout from font_size on; font 0 is None.
RECURSIVE find_optimal_text_layout(_, _, _, _, _)
find_optimal_text_layout(chars, font_size, max_width, max_height, truetype) ==
    IF RangeExhausted(font_size) THEN [font |-> 0, width |-> 0, height |-> 0]
    ELSE LET size == TextSize(chars, font_size, truetype)
         IN  IF size[1] <= max_width /\ size[2] <= max_height
             THEN [font |-> font_size, width |-> size[1], height |-> size[2]]
             ELSE find_optimal_text_layout(chars, font_size - 4, max_width, max_height, truetype)

\* ImageProcessor.add_text_overlay, with the font search.
add_text_overlay_layout(image, text, font_size, opacity, truetype) ==
    IF SkipsOverlay(text) THEN image
    ELSE LET chars == OrDefault(text, <<>>)
             margin_x == Margin(image.w)
             margin_y == Margin(image.h)
             layout == find_optimal_text_layout(chars, OrDefault(font_size, FONT_SIZE),
                                                image.w - 2 * margin_x, image.h - 2 * margin_y, truetype)
         IN  IF layout.font = 0 THEN image
             ELSE [image EXCEPT !.px = Append(@, [op |-> "text", text |-> chars, font |-> layout.font,
                                                  x |-> image.w - layout.width - margin_x,
                                                  y |-> image.h - layout.height - margin_y,
                                                  opacity |-> OrDefault(opacity, TEXT_OPACITY)])]

ImageSizes == {1, 20, 30, 40, 100, 1024, 1536, 2000}

RatioArgs == {"16x9", "9x16", "1x1", "4x3", ""}

TextArgs == {None, Some(<<>>), Some(<<" ">>), Some(<<"\t", " ">>), Some(<<"a">>), Some(<<" ", "a">>), Some(<<"B", "u", "y">>)}

FontSizeArgs == {None, Some(0), Some(12), Some(14), Some(16), Some(50)}

OpacityArgs == {None, Some(0), Some(255)}

CropArgs == [image : {Picture(w, h) : w, h \in ImageSizes}, ratio : RatioArgs]

OverlayArgs == [image : {Picture(w, h) : w \in ImageSizes, h \in {20, 1024}}, text : TextArgs, font_size : FontSizeArgs, opacity : OpacityArgs, truetype : BOOLEAN]

InitImg ==
    /\ marker = [c \in Campaigns |-> "absent"]
    /\ brief = [c \in Campaigns |-> NoBrief("absent")]
    /\ files = [c \in Campaigns |-> NoFiles]
    /\ NoRun
    /\ \/ fpc = "crop" /\ fnArg \in CropArgs
       \/ fpc = "overlay" /\ fnArg \in OverlayArgs
    /\ fnRes = <<>>
    /\ fnRes2 = <<>>

ApplyCropToRatio ==
    /\ fpc = "crop"
    /\ fpc' = "cropped"
    /\ fnRes' = crop_to_ratio(fnArg.image, fnArg.ratio)
    /\ UNCHANGED <<fnArg, fnRes2, runVars>>

ApplyAddTextOverlay ==
    /\ fpc = "overlay"
    /\ fpc' = "overlaid"
    /\ fnRes' = add_text_overlay_layout(fnArg.image, fnArg.text, fnArg.font_size, fnArg.opacity, fnArg.truetype)
    /\ UNCHANGED <<fnArg, fnRes2, runVars>>

NextImg ==
    \/ ApplyCropToRatio
    \/ ApplyAddTextOverlay

SpecImg == InitImg /\ [][NextImg]_vars

----------------------------------------------------------------------------
(* Properties of the pure functions (checked under SpecFn) *)

WithoutUnderscores(s) == SelectSeq(s, LAMBDA c : c # "_")

\* C8, as the specification states it: sanitizing a sanitized name gives the
\* same name.
C8_SanitizeIdempotent == fpc = "resanitized" => fnRes2 = fnRes

\* C8, amended: sanitizing a sanitized name deletes its underscores and changes
\* nothing else; so it gives the same name exactly when the sanitized name has
\* no underscore.
C8_ResanitizeDropsUnderscores ==
    fpc = "resanitized" =>
        /\ fnRes2 = WithoutUnderscores(fnRes)
        /\ (fnRes2 = fnRes) <=> ("_" \notin Range(fnRes))

\* A name with inner whitespace: its sanitized form has an underscore, which the
\* second application removes.
C8_Witness == fpc = "resanitized" /\ fnArg = <<"a", " ", "B">> /\ fnRes = <<"a", "_", "b">> /\ fnRes2 = <<"a", "b">>

C10_Table(name) ==
    CASE name = English -> <<"e","n">>
      [] name = German -> <<"d","e">>
      [] name = French -> <<"f","r">>
      [] name = Spanish -> <<"e","s">>
      [] name = Italian -> <<"i","t">>
      [] name = Portuguese -> <<"p","t">>
      [] name = Dutch -> <<"n","l">>
      [] name = Russian -> <<"r","u">>
      [] name = Chinese -> <<"z","h">>
      [] name = Japanese -> <<"j","a">>
      [] name = Korean -> <<"k","o">>
      [] OTHER -> <<>>

C10_Known == {English, German, French, Spanish, Italian, Portuguese, Dutch, Russian, Chinese, Japanese, Korean}

\* C10: _get_language_code gives each of the eleven known names its fixed code,
\* and every other name its first two characters (fewer for a shorter name),
\* lowercased.
C10_LanguageCode ==
    fpc = "coded" =>
        IF fnArg \in C10_Known
        THEN fnRes = C10_Table(fnArg)
        ELSE /\ Len(fnRes) = (IF Len(fnArg) < 2 THEN Len(fnArg) ELSE 2)
             /\ \A i \in 1..Len(fnRes) : fnRes[i] = ToLower(fnArg[i]) /\ fnRes[i] \notin Range(UpperLetters)

\* An unknown name with capitals gets its lowercased prefix.
C10_Witness == fpc = "coded" /\ fnArg = <<"Z","H">> /\ fnRes = <<"z","h">>

----------------------------------------------------------------------------
(* Properties of the image operations (checked under SpecImg) *)

\* The candidate sizes as the specification gives them: the starting size
\* decreased in steps of 4, down to 12.
SizesDownTo12(font_size) == {s \in 12..font_size : (font_size - s) % 4 = 0}

\* The text fits the box the margins leave in the image, at size s.
FitsAt(arg, s) ==
    LET size == TextSize(OrDefault(arg.text, <<>>), s, arg.truetype)
    IN  /\ size[1] <= arg.image.w - 2 * Margin(arg.image.w)
        /\ size[2] <= arg.image.h - 2 * Margin(arg.image.h)

\* C11, as the specification states it: for a text that is not blank,
\* add_text_overlay draws the text at the largest size that fits among the
\* starting size decreased in steps of 4 down to 12; when none fits it returns
\* the input image.
C11_LargestFittingSize ==
    (fpc = "overlaid" /\ ~SkipsOverlay(fnArg.text)) =>
        LET fitting == {s \in SizesDownTo12(OrDefault(fnArg.font_size, FONT_SIZE)) : FitsAt(fnArg, s)}
        IN  IF fitting = {} THEN fnRes = fnArg.image
            ELSE /\ Len(fnRes.px) = 1
                 /\ fnRes.px[1].font = CHOOSE s \in fitting : \A t \in fitting : t <= s

\* C12: for the ratio "16x9" crop_to_ratio saves one image, exactly 1536 wide
\* and 864 high, and for "9x16" one exactly 864 wide and 1536 high, whatever the
\* size of the input: the input is resized to 1536x1536 and the rectangle cut
\* out of it is centred; for any other ratio it raises and saves nothing.
C12_CropDimensions ==
    fpc = "cropped" =>
        IF fnArg.ratio \in {"16x9", "9x16"}
        THEN /\ ~fnRes.raised
             /\ Cardinality(fnRes.saved) = 1
             /\ \A img \in fnRes.saved :
                   /\ <<img.w, img.h>> = IF fnArg.ratio = "16x9" THEN <<1536, 864>> ELSE <<864, 1536>>
                   /\ Len(img.px) = 2
                   /\ img.px[1] = [op |-> "resize", from |-> <<fnArg.image.w, fnArg.image.h>>]
                   /\ img.px[2].op = "crop"
                   /\ img.px[2].box[1] + img.px[2].box[3] = 1536
                   /\ img.px[2].box[2] + img.px[2].box[4] = 1536
        ELSE fnRes.raised /\ fnRes.saved = {}

\* A 1x2000 image was cropped to the portrait ratio: 864x1536.
C12_Witness ==
    /\ fpc = "cropped"
    /\ fnArg = [image |-> Picture(1, 2000), ratio |-> "9x16"]
    /\ \E img \in fnRes.saved : img.w = 864 /\ img.h = 1536

\* C13: for a text that is None, empty or only whitespace, add_text_overlay
\* returns the input image, pixels unchanged, whatever the image, the font size
\* and the opacity.
C13_BlankTextUnchanged ==
    (fpc = "overlaid" /\ (fnArg.text = None \/ \A chars \in fnArg.text : \A i \in 1..Len(chars) : chars[i] \in {" ", "\t"})) =>
        fnRes = fnArg.image

\* A whitespace-only text on an image in which a text would fit: unchanged.
C13_Witness ==
    /\ fpc = "overlaid"
    /\ fnArg.text = Some(<<"\t", " ">>)
    /\ fnArg.font_size = Some(50)
    /\ fnArg.opacity = Some(255)
    /\ fnArg.image = Picture(1024, 1024)
    /\ fnRes = Picture(1024, 1024)

----------------------------------------------------------------------------
(* Properties of a run (checked under Spec) *)

Loaded == Range(briefs)

Scanned == 1..(scan - 1)

\* The identity sequence <<1, ..., n>>.
UpTo(n) == [i \in 1..n |-> i]

\* The asset stem _process_single_product uses for product i of campaign c.
StemOf(c, i) ==
    LET a == AssetFor(brief[c], i)
    IN  IF a # <<>> /\ <<ASSETS_DIR, a>> \in DOMAIN files[c]
        THEN Stem(a)
        ELSE Stem(sanitize_product_name(brief[c].products[i]) \o <<".png">>)

\* <campaign>/results/<product>/<folder>/<ratio>/, as a path.
RatioDir(pn, folder, r) == SelectSeq(<< <<"results">>, pn, folder, <<r>> >>, NonEmpty)

\* <campaign>/results/<product>/<folder>/<ratio>/<stem>_<ratio>.png
OutputPath(pn, folder, stem, r) == RatioDir(pn, folder, r) \o << stem \o <<"_", r, ".png">> >>

\* The files of campaign c directly in directory dir.
FilesIn(c, dir) == {p \in DOMAIN files[c] : Len(p) = Len(dir) + 1 /\ SubSeq(p, 1, Len(dir)) = dir}

\* The output folders of product i of campaign c: base and one per language code.
OutputFolders(c) == {<<"base">>} \cup {get_language_code(l) : l \in Range(LanguagesOf(brief[c]))}

\* Every output file of product i of campaign c is on disk.
OutputsPresent(c, i) ==
    \A folder \in OutputFolders(c) : \A r \in Range(Ratios) :
        OutputPath(sanitize_product_name(brief[c].products[i]), folder, StemOf(c, i), r) \in DOMAIN files[c]

\* C1: while load_campaign_briefs runs and when it returns, the list holds no
\* folder whose marker says done, and it holds every scanned folder with a
\* brief that is a mapping whose marker does not say done.
C1_DoneNeverLoaded ==
    pc = "load" =>
        /\ \A c \in Loaded : marker[c] # "done"
        /\ \A c \in Scanned : (marker[c] # "done" /\ brief[c].kind = "map") => c \in Loaded

\* The loader returned a folder with another status beside a done folder with a
\* valid brief, which it left out.
C1_Witness ==
    /\ pc = "load"
    /\ scan > Len(CampaignDirs)
    /\ \E c, d \in Campaigns :
          /\ marker[c] = "done" /\ brief[c].kind = "map" /\ c \notin Loaded
          /\ marker[d] = "other" /\ d \in Loaded

\* C2: once a campaign has raised, process_all_campaigns does not raise and,
\* when it returns, it has processed every loaded campaign; the failed campaign
\* is not marked done; a campaign that completed and was marked is still marked
\* and has all its outputs.
C2_FailureIsolated ==
    /\ (\E c \in Campaigns : outcome[c] = "failed") => pc # "raised"
    /\ pc = "returned" => \A c \in Loaded : outcome[c] # "none"
    /\ \A c \in Campaigns : outcome[c] = "failed" => marker[c] # "done" /\ markCalls[c] = 0
    /\ \A c \in Campaigns : (outcome[c] = "ok" /\ c \notin markFailed) =>
          /\ marker[c] = "done"
          /\ \A i \in 1..Len(brief[c].products) : OutputsPresent(c, i)

\* The first of two campaigns raised, the second was still processed, completed
\* and marked, and process_all_campaigns returned.
C2_Witness ==
    /\ pc = "returned"
    /\ Len(briefs) = 2
    /\ outcome[briefs[1]] = "failed"
    /\ outcome[briefs[2]] = "ok"
    /\ marker[briefs[2]] = "done"
    /\ brief[briefs[2]].products # <<>>

\* C3: a run writes a campaign's marker at most once, and only when the worker
\* has returned for every product of the brief, in list order, and none raised;
\* a loaded campaign's marker says done only if this run wrote it.
C3_MarkerAfterAllProducts ==
    \A c \in Campaigns :
        /\ markCalls[c] <= 1
        /\ markCalls[c] = 1 => prodDone[c] = UpTo(Len(brief[c].products)) /\ failedAt[c] = 0
        /\ (c \in Loaded /\ marker[c] = "done") => markCalls[c] = 1

\* A campaign of two products was marked after both were processed.
C3_Witness == \E c \in Campaigns : markCalls[c] = 1 /\ marker[c] = "done" /\ prodDone[c] = <<1, 2>>

\* C4: no step of a run touches a campaign whose marker says done: its files and
\* its marker stay as they are, no remote call is made for it, the loader does
\* not add it to its list, and it is never the campaign being processed.
C4_DoneCampaignUntouched ==
    [][\A c \in Campaigns : marker[c] = "done" =>
          /\ files'[c] = files[c]
          /\ marker'[c] = marker[c]
          /\ \A x \in calls' \ calls : x[1] # c
          /\ pc = "process" => Cur # c
          /\ c \notin Range(briefs') \ Range(briefs)]_vars

\* A second run returned: it skipped the campaign the first run had marked (its
\* results are on disk) and processed the other one again.
C4_Witness ==
    /\ runs = 2
    /\ pc = "returned"
    /\ \E c, d \in Campaigns :
          /\ marker[c] = "done" /\ c \notin Loaded /\ FilesIn(c, RatioDir(sanitize_product_name(Shoe), <<"base">>, "1x1")) # {}
          /\ d \in Loaded /\ outcome[d] # "none" /\ calls # {}

\* C5, as the specification states it: load_campaign_briefs never raises; a
\* brief that does not parse to a mapping is logged and left out, and every
\* scanned folder with a valid brief and no done marker is returned.
C5_LoaderNeverRaises ==
    /\ pc # "raised"
    /\ pc = "load" => \A c \in Scanned :
          /\ brief[c].kind \in {"badyaml", "empty", "nonmap"} /\ marker[c] # "done" => c \notin Loaded /\ <<"error", "brief", c>> \in log
          /\ brief[c].kind = "map" /\ marker[c] # "done" => c \in Loaded


\* The three files <stem>_<ratio>.png of a folder of a product.
ThreeFiles(pn, folder, stem) == {OutputPath(pn, folder, stem, r) : r \in Range(Ratios)}

\* All files in the three ratio sub-folders of a folder of a product.
FolderFiles(c, pn, folder) == UNION {FilesIn(c, RatioDir(pn, folder, r)) : r \in Range(Ratios)}

\* The products of campaign c with the same sanitized name as product i.
SameFolderProducts(c, i) == {j \in 1..Len(brief[c].products) : sanitize_product_name(brief[c].products[j]) = sanitize_product_name(brief[c].products[i])}

C7_FailureStopsProducts ==
    \A c \in Campaigns : failedAt[c] > 0 =>
        /\ outcome[c] = "failed"
        /\ markCalls[c] = 0
        /\ prodDone[c] = UpTo(failedAt[c] - 1)
        /\ \A i \in 1..(failedAt[c] - 1) : OutputsPresent(c, i)
        /\ \A x \in calls : x[1] = c => x[2] <= failedAt[c]
        /\ \A p \in DOMAIN files[c] : files[c][p].run = runs => files[c][p].prod <= failedAt[c]
        /\ \A p \in DOMAIN files[c] : files[c][p].k \in {"asset", "mask", "1x1", "16x9", "9x16"}

\* The first of two products raised in the outpaint call: its base image is on
\* disk, the second product was never started, the run went on and returned.
C7_Witness ==
    /\ pc = "returned"
    /\ \E c \in Campaigns :
          /\ failedAt[c] = 1 /\ Len(brief[c].products) = 2
          /\ <<c, 1, "edit_outpaint">> \in calls
          /\ FilesIn(c, RatioDir(sanitize_product_name(brief[c].products[1]), <<"base">>, "1x1")) # {}

\* The language indexes before li whose code is that of language j: the last of
\* them wrote the folder.
LastWithCode(c, j) ==
    LET ls == LanguagesOf(brief[c])
        same == {n \in 1..(li - 1) : get_language_code(ls[n]) = get_language_code(ls[j])}
    IN  CHOOSE n \in same : \A m \in same : m <= n

\* Every file under a base folder is an image without text: the base 1x1 image,
\* or the crop of its sub-folder's ratio.
BaseHoldsNoText ==
    \A c \in Campaigns : \A p \in DOMAIN files[c] :
        (\E n \in 1..Len(p) : p[n] = <<"base">>) =>
            /\ files[c][p].text = ""
            /\ <<files[c][p].k>> = p[Len(p) - 1]

\* C9, as the specification states it: every file under a base folder is an
\* image without text; and while and after the language loop of a product runs,
\* each file of the folder of a language already handled is the base image of
\* the same ratio, with add_text_overlay applied for that language's text when
\* the brief has a message.
C9_EachLanguageOverlay ==
    /\ BaseHoldsNoText
    /\ (pc = "process" /\ ppc = "lang") =>
          \A j \in 1..(li - 1) : \A r \in Range(Ratios) :
              LET ls == LanguagesOf(CurBrief)
                  baseImg == files[Cur][OutputPath(loc.pn, <<"base">>, loc.assetName, r)]
                  langImg == files[Cur][OutputPath(loc.pn, get_language_code(ls[j]), loc.assetName, r)]
                  text == loc.translated[j]
              IN  /\ OutputPath(loc.pn, get_language_code(ls[j]), loc.assetName, r) \in DOMAIN files[Cur]
                  /\ langImg = IF CurBrief.message = "" THEN baseImg ELSE add_text_overlay(baseImg, text)

\* C9, amended: every file under a base folder is an image without text; and
\* while and after the language loop of a product runs, each file of the folder
\* of a language already handled is the base image of the same ratio, with
\* add_text_overlay applied, when the brief has a message, for the text of the
\* last language handled whose code names that folder (languages with the same
\* code share one folder, and the later one overwrites the earlier one's files).
C9_BaseWithoutText ==
    /\ BaseHoldsNoText
    /\ (pc = "process" /\ ppc = "lang") =>
          \A j \in 1..(li - 1) : \A r \in Range(Ratios) :
              LET ls == LanguagesOf(CurBrief)
                  baseImg == files[Cur][OutputPath(loc.pn, <<"base">>, loc.assetName, r)]
                  langImg == files[Cur][OutputPath(loc.pn, get_language_code(ls[j]), loc.assetName, r)]
                  text == loc.translated[LastWithCode(Cur, j)]
              IN  /\ OutputPath(loc.pn, get_language_code(ls[j]), loc.assetName, r) \in DOMAIN files[Cur]
                  /\ langImg = IF CurBrief.message = "" THEN baseImg ELSE add_text_overlay(baseImg, text)
                  /\ (CurBrief.message # "" /\ ~Blank(text)) => langImg.text = text /\ langImg # baseImg
                  /\ text \in {CurBrief.message} \cup TranslationReplies

\* The language loop of a product has ended for two languages with the code
\* "en": the first was translated, the second, English, was not, and the folder
\* en holds the base images with the message of the second burned in.
C9_Witness ==
    /\ pc = "process" /\ ppc = "lang" /\ li = 3
    /\ CurBrief = BriefTwo
    /\ loc.translated[1] = "Kaufen"
    /\ loc.translated[2] = "Buy"
    /\ files[Cur][OutputPath(loc.pn, <<"e","n">>, loc.assetName, "1x1")].text = "Buy"
    /\ files[Cur][OutputPath(loc.pn, <<"base">>, loc.assetName, "1x1")].text = ""

\* C14, as the specification states it: every edit request of
\* generate_image_with_asset carries the asset file, the lock mask built from
\* the asset, the scene prompt, and the size 1024x1024.
C14_EditCarriesMask ==
    request.kind = "edit_base" =>
        /\ request.image = "asset"
        /\ request.mask = "lock_mask"
        /\ request.prompt \in SceneReplies \cup {DefaultPrompt}
        /\ request.size = "1024x1024"

\* The remote calls made for the current product so far in this run.
CallsMade == {x[3] : x \in {y \in calls : y[1] = Cur /\ y[2] = pi}}

\* The named asset of the current product is on disk.
NamedAssetOnDisk ==
    /\ AssetFor(CurBrief, pi) # <<>>
    /\ <<ASSETS_DIR, AssetFor(CurBrief, pi)>> \in DOMAIN files[Cur]

\* The positions of _process_single_product that may follow one another.
StepOrder ==
    {<<"resolve", "extract">>, <<"resolve", "scene">>, <<"extract", "genasset">>, <<"genasset", "scene">>,
     <<"scene", "base">>, <<"base", "canvas">>, <<"canvas", "compress">>, <<"compress", "outpaint">>,
     <<"outpaint", "lang">>, <<"lang", "lang">>, <<"lang", "resolve">>, <<"lang", "mark">>}

OutpaintReturned == request'.kind = "edit_outpaint" /\ pc' = "process" /\ ppc' = "lang"

\* The step is a call of outpaint_with_dalle; its edit request raised.
OutpaintRaised == request'.kind = "edit_outpaint" /\ ~(pc' = "process" /\ ppc' = "lang")

C17_FallbacksContinue ==
    [][pc = "process" =>
          LET kind == request'.kind
          IN  /\ kind \in {"scene", "compress", "translate"} =>
                    /\ pc' = "process" /\ bi' = bi /\ pi' = pi
                    /\ failedAt' = failedAt /\ outcome' = outcome
              /\ (kind = "scene" /\ loc'.apiError) => loc'.prompt = DefaultPrompt /\ ppc' = "base"
              /\ kind = "edit_base" => request'.prompt = loc.prompt
              /\ (kind = "compress" /\ loc'.apiError) =>
                    /\ ppc' = "outpaint"
                    /\ IF TextLen(loc.prompt) <= MAX_DALLE_PROMPT_LENGTH
                       THEN loc'.dalle = loc.prompt
                       ELSE /\ TextLen(loc'.dalle) = MAX_DALLE_PROMPT_LENGTH + 3
                            /\ Len(loc'.dalle) = Len(loc.prompt) + 1
                            /\ loc'.dalle[Len(loc'.dalle)] = [src |-> "...", len |-> 3]
                            /\ loc'.dalle[1] = [loc.prompt[1] EXCEPT !.len = MAX_DALLE_PROMPT_LENGTH]
              /\ (kind = "translate" /\ loc'.apiError) =>
                    /\ loc'.translated = Append(loc.translated, CurBrief.message)
                    /\ li' = li + 1
                    /\ \A r \in Range(Ratios) :
                          LET p == OutputPath(loc.pn, get_language_code(LanguagesOf(CurBrief)[li]), loc.assetName, r)
                          IN  p \in DOMAIN files'[Cur] /\ files'[Cur][p].text = CurBrief.message]_vars

\* The compression call failed for a scene prompt of 1200 characters: the
\* worker goes on to the outpaint call with its first 800 characters and "...".
C17_Witness ==
    /\ pc = "process" /\ ppc = "outpaint"
    /\ loc.apiError
    /\ loc.dalle = <<[src |-> "scene reply", len |-> 800], [src |-> "...", len |-> 3]>>

\* a is the text of the first characters of b.
RECURSIVE IsPrefix(_, _)
IsPrefix(a, b) ==
    \/ a = <<>>
    \/ /\ b # <<>>
       /\ Head(a).src = Head(b).src
       /\ \/ Head(a).len = Head(b).len /\ IsPrefix(Tail(a), Tail(b))
          \/ Head(a).len < Head(b).len /\ Tail(a) = <<>>

\* C18: the prompt of every outpaint edit request has at most 1000 characters
\* and is a prefix of the prompt create_dalle_prompt returned, be that a reply of
\* the completion API of any length or the truncated scene prompt.
C18_OutpaintPromptBounded ==
    [][request'.kind = "edit_outpaint" =>
          /\ TextLen(request'.prompt) <= 1000
          /\ IsPrefix(request'.prompt, loc.dalle)
          /\ loc.dalle \in CompressReplies \cup {TruncatedPrompt(t) : t \in SceneReplies \cup {DefaultPrompt}}]_vars

\* An outpaint request was sent for a compressed prompt of 1500 characters: it
\* carries the first 999 of them.
C18_Witness ==
    /\ request.kind = "edit_outpaint"
    /\ request.prompt = <<[src |-> "compression reply", len |-> 999]>>

====
